---- MODULE Spec2Model ----
(***************************************************************************)
(* Model of mesh.py: a linear finite-element solver on triangles.          *)
(*                                                                         *)
(* Numbers.  The program computes in IEEE doubles.  The model computes in  *)
(* exact rationals <<n, d>> (d > 0, lowest terms), so every statement      *)
(* below is a statement in exact arithmetic.  Two values that are not      *)
(* rationals are kept apart from them by a zero denominator:               *)
(*   NaN   the non-finite result of a division by zero (inf or nan);       *)
(*         every operation on it gives NaN again, as inf and nan do in     *)
(*         the operations the program performs;                            *)
(*   Surd  a square root that is not rational.                             *)
(* Node ids are 1..N here and 0..N-1 in the program.                       *)
(***************************************************************************)
EXTENDS Integers, Sequences, FiniteSets

VARIABLES node, region, element, pc, vel, ei, K, rhs, nsolve, out

vars == <<node, region, element, pc, vel, ei, K, rhs, nsolve, out>>

(* ------------------------------ bounds --------------------------------- *)

\* node coordinates of the single-element specification range over 0..MaxCoord
MaxCoord == 1
\* the element file holds at most MaxElems lines
MaxElems == 2
\* Mesh.solve is called at most MaxSolves times
MaxSolves == 2

(* --------------------------- exact numbers ----------------------------- *)

Abs(n) == IF n < 0 THEN -n ELSE n

RECURSIVE GCD(_, _)
GCD(a, b) == IF b = 0 THEN a ELSE GCD(b, a % b)

NaN == <<0, 0>>
Surd == <<1, 0>>

Finite(a) == a[2] # 0

\* the rational n/d in lowest terms; a zero divisor gives the non-finite value
Rat(n, d) ==
    IF d = 0 THEN NaN
    ELSE LET g == GCD(Abs(n), Abs(d))
             s == IF d < 0 THEN -1 ELSE 1
         IN  <<(s * n) \div g, (s * d) \div g>>

I(n) == <<n, 1>>

\* the value of an operation one of whose operands is not a rational
Bad(a, b) == IF a = NaN \/ b = NaN THEN NaN ELSE Surd

RAdd(a, b) ==
    IF Finite(a) /\ Finite(b)
    THEN IF a[2] = 1 /\ b[2] = 1 THEN <<a[1] + b[1], 1>>
         ELSE LET g == GCD(a[2], b[2])
              IN  Rat(a[1] * (b[2] \div g) + b[1] * (a[2] \div g), (a[2] \div g) * b[2])
    ELSE Bad(a, b)

RNeg(a) == IF Finite(a) THEN <<-a[1], a[2]>> ELSE a

RSub(a, b) == RAdd(a, RNeg(b))

RMul(a, b) ==
    IF Finite(a) /\ Finite(b)
    THEN IF a[2] = 1 /\ b[2] = 1 THEN <<a[1] * b[1], 1>>
         ELSE LET g == GCD(Abs(a[1]), b[2])
                  h == GCD(Abs(b[1]), a[2])
              IN  Rat((a[1] \div g) * (b[1] \div h), (a[2] \div h) * (b[2] \div g))
    ELSE Bad(a, b)

\* a division by zero gives the non-finite value
RDiv(a, b) ==
    IF Finite(a) /\ Finite(b)
    THEN IF b[1] = 0 THEN NaN
         ELSE RMul(a, IF b[1] < 0 THEN <<-b[2], -b[1]>> ELSE <<b[2], b[1]>>)
    ELSE Bad(a, b)

RSum3(a, b, c) == RAdd(RAdd(a, b), c)

IsSquare(n) == \E r \in 0..n : r * r = n
Root(n) == CHOOSE r \in 0..n : r * r = n

\* scipy.sqrt of a non-negative value
Sqrt(a) ==
    IF ~Finite(a) THEN a
    ELSE IF IsSquare(a[1]) /\ IsSquare(a[2]) THEN <<Root(a[1]), Root(a[2])>>
    ELSE Surd

(* ------------------------------- Node ---------------------------------- *)

\* rand(): the value of a node constructed without one, a number in [0,1)
RandVals == {<<1, 2>>}

Node(x, y, boundary, value) ==
    [x |-> x, y |-> y, boundary |-> boundary, value |-> value]

(* ------------------------------ Region --------------------------------- *)

\* orientations whose cosine and sine are rational: 0, a quarter turn, and
\* the angle of the 3-4-5 triangle
Orientations == {"zero", "quarter", "atan43"}

Cos(o) == CASE o = "zero" -> I(1) [] o = "quarter" -> I(0) [] o = "atan43" -> Rat(3, 5)
Sin(o) == CASE o = "zero" -> I(0) [] o = "quarter" -> I(1) [] o = "atan43" -> Rat(4, 5)

\* self.T = array([[cos,-sin],[sin,cos]])
Rotation(o) == << <<Cos(o), RNeg(Sin(o))>>, <<Sin(o), Cos(o)>> >>

Region(matName, orientation, source) ==
    [matName |-> matName, orientation |-> orientation, source |-> source,
     T |-> Rotation(orientation)]

\* materials[matName][matProp].value(solution): the material table, a
\* function of the scalar state; one material ignores the state, the other
\* depends on it (it drops from 2 to 1 once the state is positive)
MatNames == {"AIR", "IRON"}

MaterialValue(matName, solution) ==
    IF matName = "AIR" THEN I(1)
    ELSE IF ~Finite(solution) THEN solution
    ELSE IF solution[1] > 0 THEN I(1) ELSE I(2)

Transpose2(M) == << <<M[1][1], M[2][1]>>, <<M[1][2], M[2][2]>> >>

\* the product of two numpy arrays is taken entry by entry
calcTensor(rg, solution) ==
    LET v == MaterialValue(rg.matName, solution)
        Tt == Transpose2(rg.T)
    IN  [r \in 1..2 |-> [c \in 1..2 |-> RMul(RMul(rg.T[r][c], v), Tt[r][c])]]

(* ------------------------------ Element -------------------------------- *)

\* Element.__init__: the signed area and the coefficients b, c
Element(nd, nodes, rgn) ==
    LET n1 == nd[nodes[1]]
        n2 == nd[nodes[2]]
        n3 == nd[nodes[3]]
    IN  [node |-> nodes, region |-> rgn,
         area |-> Rat(n1.x * (n2.y - n3.y) + n2.x * (n3.y - n1.y) + n3.x * (n1.y - n2.y), 2),
         b |-> <<n2.y - n3.y, n3.y - n1.y, n1.y - n2.y>>,
         c |-> <<n3.x - n2.x, n1.x - n3.x, n2.x - n1.x>>]

calcSourceVec(rg, e) ==
    LET s == RDiv(RMul(I(rg[e.region].source), e.area), I(3))
    IN  <<s, s, s>>

\* coefi.dot(k).dot(coefj) for coefi = (b[i], c[i]), coefj = (b[j], c[j])
DotKDot(e, k, i, j) ==
    LET r1 == RAdd(RMul(I(e.b[i]), k[1][1]), RMul(I(e.c[i]), k[2][1]))
        r2 == RAdd(RMul(I(e.b[i]), k[1][2]), RMul(I(e.c[i]), k[2][2]))
    IN  RAdd(RMul(r1, I(e.b[j])), RMul(r2, I(e.c[j])))

\* value = sum([n.value for n in self.node])/3
MeanValue(nd, e) ==
    RDiv(RSum3(nd[e.node[1]].value, nd[e.node[2]].value, nd[e.node[3]].value), I(3))

\* a slip of the index of coefj
calcDiffMatShifted(nd, rg, e) ==
    LET value == MeanValue(nd, e)
        k == calcTensor(rg[e.region], value)
    IN  [j \in 1..3 |-> [i \in 1..3 |->
            RDiv(RNeg(DotKDot(e, k, i, (j % 3) + 1)), RMul(I(4), e.area))]]

\* self.Ke[j,i] = -coefi.dot(k).dot(coefj)/(4*self.area)
calcDiffMat(nd, rg, e) ==
    LET value == MeanValue(nd, e)
        k == calcTensor(rg[e.region], value)
    IN  [j \in 1..3 |-> [i \in 1..3 |->
            RDiv(RNeg(DotKDot(e, k, i, j)), RMul(I(4), e.area))]]

Zeros3 == [j \in 1..3 |-> [i \in 1..3 |-> I(0)]]

\* self.Ce[j,i] = -coefi.dot(array([[vx],[vy]]))/6, zero when vx = vy = 0
calcConvMat(e, vx, vy) ==
    IF vx = 0 /\ vy = 0 THEN Zeros3
    ELSE [j \in 1..3 |-> [i \in 1..3 |->
            RDiv(RNeg(I(e.b[i] * vx + e.c[i] * vy)), I(6))]]

MatAdd3(A, B) == [j \in 1..3 |-> [i \in 1..3 |-> RAdd(A[j][i], B[j][i])]]

grad(nd, e) ==
    LET z == [i \in 1..3 |-> nd[e.node[i]].value]
        gradx == RSum3(RMul(z[1], I(e.b[1])), RMul(z[2], I(e.b[2])), RMul(z[3], I(e.b[3])))
        grady == RSum3(RMul(z[1], I(e.c[1])), RMul(z[2], I(e.c[2])), RMul(z[3], I(e.c[3])))
    IN  RDiv(Sqrt(RAdd(RMul(gradx, gradx), RMul(grady, grady))), RMul(I(2), e.area))

(* ------------------------- Mesh: the assembly -------------------------- *)

NN == Len(node)

ZeroVec == [n \in 1..NN |-> I(0)]
ZeroMat == [n \in 1..NN |-> [m \in 1..NN |-> I(0)]]

\* Ke = e.calcDiffMat(divMatProp) + e.calcConvMat(vx,vy)
LocalMatrix(e, v) == MatAdd3(calcDiffMat(node, region, e), calcConvMat(e, v[1], v[2]))

\* a slip: the entry of an interior column is assigned, not accumulated
ColStepOverwrite(S, e, Ke, i, j) ==
    LET ni == e.node[i]
        nj == e.node[j]
    IN  IF node[nj].boundary
        THEN [K   |-> [S.K EXCEPT ![ni][nj] = I(0)],
              rhs |-> [S.rhs EXCEPT ![ni] = RSub(@, RMul(Ke[i][j], node[nj].value))]]
        ELSE [K   |-> [S.K EXCEPT ![ni][nj] = Ke[i][j]],
              rhs |-> S.rhs]

\* a slip: the local matrix is read at [j,i]
ColStepTransposed(S, e, Ke, i, j) ==
    LET ni == e.node[i]
        nj == e.node[j]
    IN  IF node[nj].boundary
        THEN [K   |-> [S.K EXCEPT ![ni][nj] = I(0)],
              rhs |-> [S.rhs EXCEPT ![ni] = RSub(@, RMul(Ke[j][i], node[nj].value))]]
        ELSE [K   |-> [S.K EXCEPT ![ni][nj] = RAdd(@, Ke[j][i])],
              rhs |-> S.rhs]

\* the body of "for j,nj in enumerate(e.node)" for an interior row ni
ColStep(S, e, Ke, i, j) ==
    LET ni == e.node[i]
        nj == e.node[j]
    IN  IF node[nj].boundary
        THEN [K   |-> [S.K EXCEPT ![ni][nj] = I(0)],
              rhs |-> [S.rhs EXCEPT ![ni] = RSub(@, RMul(Ke[i][j], node[nj].value))]]
        ELSE [K   |-> [S.K EXCEPT ![ni][nj] = RAdd(@, Ke[i][j])],
              rhs |-> S.rhs]

\* a slip: the source is subtracted after the boundary row was pinned
RowStepPinFirst(S, e, Ke, Se, i) ==
    LET ni == e.node[i]
    IN  IF node[ni].boundary
        THEN [K   |-> [S.K EXCEPT ![ni][ni] = I(1)],
              rhs |-> [S.rhs EXCEPT ![ni] = RSub(node[ni].value, Se[i])]]
        ELSE LET S1 == [K |-> S.K, rhs |-> [S.rhs EXCEPT ![ni] = RSub(@, Se[i])]]
             IN  ColStep(ColStep(ColStep(S1, e, Ke, i, 1), e, Ke, i, 2), e, Ke, i, 3)

\* the body of "for i,ni in enumerate(e.node)"
RowStep(S, e, Ke, Se, i) ==
    LET ni == e.node[i]
        S1 == [K |-> S.K, rhs |-> [S.rhs EXCEPT ![ni] = RSub(@, Se[i])]]
    IN  IF node[ni].boundary
        THEN [K   |-> [S1.K EXCEPT ![ni][ni] = I(1)],
              rhs |-> [S1.rhs EXCEPT ![ni] = node[ni].value]]
        ELSE ColStep(ColStep(ColStep(S1, e, Ke, i, 1), e, Ke, i, 2), e, Ke, i, 3)

\* the body of "for e in self.element"
ElementStep(S, e, v) ==
    LET Ke == LocalMatrix(e, v)
        Se == calcSourceVec(region, e)
    IN  RowStep(RowStep(RowStep(S, e, Ke, Se, 1), e, Ke, Se, 2), e, Ke, Se, 3)

(* ------------------------ Mesh: the linear solve ----------------------- *)

\* M without its first row and its column c
Minor(M, n, c) ==
    [r \in 1..(n - 1) |-> [k \in 1..(n - 1) |-> M[r + 1][IF k < c THEN k ELSE k + 1]]]

\* the determinant of an n x n matrix of integers, expanded along its first row
RECURSIVE Det(_, _)
Det(M, n) ==
    IF n = 0 THEN 1
    ELSE LET RECURSIVE Expand(_)
             Expand(c) ==
                 IF c > n THEN 0
                 ELSE (IF M[1][c] = 0 THEN 0
                       ELSE (IF c % 2 = 1 THEN 1 ELSE -1) * M[1][c] * Det(Minor(M, n, c), n - 1))
                      + Expand(c + 1)
         IN  Expand(1)

LCM(a, b) == (a \div GCD(a, b)) * b

RECURSIVE RowLCM(_, _)
RowLCM(row, n) == IF n = 0 THEN 1 ELSE LCM(row[n][2], RowLCM(row, n - 1))

\* a row of rationals times the least common multiple of its denominators
IntRow(row, n) ==
    LET l == RowLCM(row, n) IN [c \in 1..n |-> row[c][1] * (l \div row[c][2])]

\* the rows of A x = y, each (with its right-hand side as the last entry)
\* scaled to integers; scaling a row does not change the solutions
Augmented(A, y) == [r \in 1..NN |-> IntRow(A[r] \o <<y[r]>>, NN + 1)]

AllFinite(A, y) == \A r \in 1..NN : Finite(y[r]) /\ \A c \in 1..NN : Finite(A[r][c])

\* A x = y has exactly one solution
Regular(A) == AllFinite(A, ZeroVec) /\ Det(Augmented(A, ZeroVec), NN) # 0

\* the solution of A x = y for a regular A (Cramer's rule)
Solution(A, y) ==
    IF ~AllFinite(A, y) THEN [n \in 1..NN |-> NaN]
    ELSE LET M == Augmented(A, y)
             d == Det(M, NN)
         IN  [n \in 1..NN |->
                Rat(Det([r \in 1..NN |-> [c \in 1..NN |-> IF c = n THEN M[r][NN + 1] ELSE M[r][c]]], NN),
                    d)]

NaNVec == [n \in 1..NN |-> NaN]

(* ----------------------- the inputs of the mesh ------------------------- *)

\* nodes.txt: the corners of two triangles that share an edge; nodes 1, 2
\* and 4 lie on one line
Layout == << <<0, 0>>, <<1, 0>>, <<0, 1>>, <<2, 0>> >>

NodeCounts == {3, 4}

\* ucons.txt, uconsvals.txt: a node is a boundary node with a prescribed
\* value, or keeps the value rand() gave it
BoundaryVals == {0, 1}

NodeKinds ==
    {[boundary |-> TRUE, value |-> I(v)] : v \in BoundaryVals}
        \cup {[boundary |-> FALSE, value |-> r] : r \in RandVals}

MeshNodes ==
    UNION {{[i \in 1..n |-> Node(Layout[i][1], Layout[i][2], k[i].boundary, k[i].value)] :
                k \in [1..n -> NodeKinds]} : n \in NodeCounts}

Sources == {0, 1}

\* orientations.txt, materials.txt, sources.txt: one region
MeshRegions ==
    {Region(m[1], m[2], s) : m \in {<<"AIR", "zero">>, <<"IRON", "quarter">>}, s \in Sources}

\* elems.txt: the lines the file may hold
ElemLines == {<<1, 2, 3>>, <<2, 4, 3>>, <<1, 2, 4>>}

\* the convection velocities a call passes
Velocities == {<<0, 0>>, <<1, 2>>}

(* ------------------------------ actions -------------------------------- *)

NoOut == [op |-> "none", arg |-> <<>>, val |-> <<>>]

\* Mesh.__init__ has read the nodes and the regions
Init ==
    /\ node \in MeshNodes
    /\ region \in {<<r>> : r \in MeshRegions}
    /\ element = <<>>
    /\ pc = "reading"
    /\ vel = <<0, 0>>
    /\ ei = 0
    /\ K = <<>>
    /\ rhs = <<>>
    /\ nsolve = 0
    /\ out = NoOut

\* readFiles: one line of elems.txt
ReadElement(line) ==
    /\ pc = "reading"
    /\ Len(element) < MaxElems
    /\ \A i \in 1..3 : line[i] <= NN
    /\ element' = Append(element, Element(node, line, 1))
    /\ UNCHANGED <<node, region, pc, vel, ei, K, rhs, nsolve, out>>

\* readFiles: a line that names a node the mesh does not have raises
\* IndexError, and the construction of the mesh ends
ReadBadLine(line) ==
    /\ pc = "reading"
    /\ Len(element) < MaxElems
    /\ \E i \in 1..3 : line[i] > NN
    /\ pc' = "aborted"
    /\ UNCHANGED <<node, region, element, vel, ei, K, rhs, nsolve, out>>

\* readFiles: the end of elems.txt
ReadDone ==
    /\ pc = "reading"
    /\ pc' = "idle"
    /\ UNCHANGED <<node, region, element, vel, ei, K, rhs, nsolve, out>>

\* stiffnessMatrixAndRhs: rhs = zeros(NN), K = lil_matrix((NN,NN))
Begin(v) ==
    /\ pc = "idle"
    /\ nsolve < MaxSolves
    /\ K' = ZeroMat
    /\ rhs' = ZeroVec
    /\ vel' = v
    /\ ei' = 1
    /\ pc' = "loop"
    /\ UNCHANGED <<node, region, element, nsolve, out>>

\* stiffnessMatrixAndRhs: one turn of "for e in self.element"
LoopBody ==
    /\ pc = "loop"
    /\ ei <= Len(element)
    /\ LET S == ElementStep([K |-> K, rhs |-> rhs], element[ei], vel)
       IN  K' = S.K /\ rhs' = S.rhs
    /\ ei' = ei + 1
    /\ UNCHANGED <<node, region, element, pc, vel, nsolve, out>>

\* stiffnessMatrixAndRhs: return K,rhs
LoopEnd ==
    /\ pc = "loop"
    /\ ei > Len(element)
    /\ pc' = "assembled"
    /\ UNCHANGED <<node, region, element, vel, ei, K, rhs, nsolve, out>>

\* spsolve(K.tocsr(),rhs): the solution of a regular system; for a singular
\* one scipy warns (MatrixRankWarning) and returns a vector of nan
spsolve(A, y) == IF Regular(A) THEN Solution(A, y) ELSE NaNVec

\* Mesh.solve: the solution is written into every node
SolveWrite ==
    /\ pc = "assembled"
    /\ LET solution == spsolve(K, rhs)
       IN  node' = [i \in 1..NN |-> [node[i] EXCEPT !.value = solution[i]]]
    /\ nsolve' = nsolve + 1
    /\ pc' = "idle"
    /\ UNCHANGED <<region, element, vel, ei, K, rhs, out>>

\* Mesh.solve: with warnings turned into errors the warning of spsolve ends
\* the call
SolveRaise ==
    /\ pc = "assembled"
    /\ ~Regular(K)
    /\ pc' = "failed"
    /\ UNCHANGED <<node, region, element, vel, ei, K, rhs, nsolve, out>>

NextAsm ==
    \/ \E line \in ElemLines : ReadElement(line)
    \/ \E line \in ElemLines : ReadBadLine(line)
    \/ ReadDone
    \/ \E v \in Velocities : Begin(v)
    \/ LoopBody
    \/ LoopEnd

\* a mesh is read and stiffnessMatrixAndRhs is called on it
SpecAsm == Init /\ [][NextAsm]_vars

Next ==
    \/ NextAsm
    \/ SolveWrite
    \/ SolveRaise

\* a mesh is read and Mesh.solve is called on it, MaxSolves times at most
Spec == Init /\ [][Next]_vars

(* ------------------- one element and its functions --------------------- *)

\* the nodal fields of the single element: value = x, value = y, value = 1
Fields == {"x", "y", "one"}

FieldValue(f, x, y) == CASE f = "x" -> I(x) [] f = "y" -> I(y) [] f = "one" -> I(1)

ElemNodes ==
    {[i \in 1..3 |-> Node(p[i][1], p[i][2], FALSE, FieldValue(f, p[i][1], p[i][2]))] :
        p \in [1..3 -> (0..MaxCoord) \X (0..MaxCoord)], f \in Fields}

\* the regions differ in material and orientation; the source is 1
ElemRegions == {Region(m, o, 1) : m \in MatNames, o \in Orientations}

\* three nodes, a region and the element built from them
InitElem ==
    /\ node \in ElemNodes
    /\ region \in {<<r>> : r \in ElemRegions}
    /\ element = <<Element(node, <<1, 2, 3>>, 1)>>
    /\ pc = "element"
    /\ vel = <<0, 0>>
    /\ ei = 0
    /\ K = <<>>
    /\ rhs = <<>>
    /\ nsolve = 0
    /\ out = NoOut

\* a call of one function of the element; "out" holds what it returned
Call(op, arg, val) ==
    /\ pc = "element"
    /\ out' = [op |-> op, arg |-> arg, val |-> val]
    /\ pc' = "called"
    /\ UNCHANGED <<node, region, element, vel, ei, K, rhs, nsolve>>

\* the caller drops the result; the element is as it was
Return ==
    /\ pc = "called"
    /\ out' = NoOut
    /\ pc' = "element"
    /\ UNCHANGED <<node, region, element, vel, ei, K, rhs, nsolve>>

CallCalcTensor ==
    LET s == MeanValue(node, element[1])
    IN  Call("calcTensor", s, calcTensor(region[1], s))

CallCalcSourceVec == Call("calcSourceVec", <<>>, calcSourceVec(region, element[1]))

CallCalcDiffMat == Call("calcDiffMat", <<>>, calcDiffMat(node, region, element[1]))

CallCalcConvMat(v) == Call("calcConvMat", v, calcConvMat(element[1], v[1], v[2]))

CallLocalMatrix(v) == Call("localMatrix", v, LocalMatrix(element[1], v))

CallGrad == Call("grad", <<>>, grad(node, element[1]))

NextElem ==
    \/ CallCalcTensor
    \/ CallCalcSourceVec
    \/ CallCalcDiffMat
    \/ \E v \in Velocities : CallCalcConvMat(v)
    \/ \E v \in Velocities : CallLocalMatrix(v)
    \/ CallGrad
    \/ Return

\* the functions of Region and Element, called on one element
SpecElem == InitElem /\ [][NextElem]_vars

(* ------------------------------ claims --------------------------------- *)

Nodes == 1..NN
Elems == 1..Len(element)

Referenced(n) == \E k \in Elems : \E i \in 1..3 : element[k].node[i] = n

UnitRow(n) == \A m \in Nodes : K[n][m] = IF m = n THEN I(1) ELSE I(0)

Prescribed == [n \in Nodes |-> node[n].value]

\* a mesh of one triangle on three nodes, all of them boundary nodes
OneTriangleAllBoundary ==
    /\ NN = 3
    /\ Len(element) = 1
    /\ {element[1].node[i] : i \in 1..3} = Nodes
    /\ \A n \in Nodes : node[n].boundary

\* C1: when stiffnessMatrixAndRhs has processed all elements, the row of
\* every boundary node that an element references is the unit row and its
\* right-hand side is the node's value; on a mesh of one triangle whose
\* three nodes are boundary nodes the system has one solution, the
\* prescribed values.
C1PinnedRows ==
    pc = "assembled" =>
        /\ \A n \in Nodes : (node[n].boundary /\ Referenced(n)) =>
                (UnitRow(n) /\ rhs[n] = node[n].value)
        /\ OneTriangleAllBoundary => (Regular(K) /\ Solution(K, rhs) = Prescribed)

C1Witness ==
    /\ pc = "assembled"
    /\ OneTriangleAllBoundary
    /\ region[1].source # 0
    /\ vel # <<0, 0>>
    /\ \E n \in Nodes : node[n].value # I(0)

RECURSIVE RSumTo(_, _)
RSumTo(f, n) == IF n = 0 THEN I(0) ELSE RAdd(RSumTo(f, n - 1), f[n])

\* the (element, local row, local column) triples, numbered from 1
TripleElem(t) == ((t - 1) \div 9) + 1
TripleRow(t) == (((t - 1) % 9) \div 3) + 1
TripleCol(t) == ((t - 1) % 3) + 1

\* the sum of Ke[i][j] over the elements that hold ni at i and nj at j
SumKe(Kes, ni, nj) ==
    RSumTo([t \in 1..(9 * Len(element)) |->
                LET e == element[TripleElem(t)]
                IN  IF e.node[TripleRow(t)] = ni /\ e.node[TripleCol(t)] = nj
                    THEN Kes[TripleElem(t)][TripleRow(t)][TripleCol(t)]
                    ELSE I(0)],
           9 * Len(element))

\* the sum of Ke[i][j] * nj.value over the elements that hold ni at i and a
\* boundary node nj at j
SumKeValue(Kes, ni) ==
    RSumTo([t \in 1..(9 * Len(element)) |->
                LET e == element[TripleElem(t)]
                    nj == e.node[TripleCol(t)]
                IN  IF e.node[TripleRow(t)] = ni /\ node[nj].boundary
                    THEN RMul(Kes[TripleElem(t)][TripleRow(t)][TripleCol(t)], node[nj].value)
                    ELSE I(0)],
           9 * Len(element))

\* the sum of Se[i] over the elements that hold ni at i
SumSe(ni) ==
    RSumTo([t \in 1..(3 * Len(element)) |->
                LET k == ((t - 1) \div 3) + 1
                    i == ((t - 1) % 3) + 1
                IN  IF element[k].node[i] = ni
                    THEN calcSourceVec(region, element[k])[i]
                    ELSE I(0)],
           3 * Len(element))

\* C2: when stiffnessMatrixAndRhs has processed all elements, the row of an
\* interior node ni holds, in the column of an interior node nj, the sum of
\* Ke[i][j] over the elements that hold both, and 0 in the column of a
\* boundary node; rhs[ni] is minus the sum of Se[i] minus the sum of
\* Ke[i][j] * nj.value over the boundary nodes nj of those elements.
C2InteriorRows ==
    pc = "assembled" =>
        LET Kes == [k \in Elems |-> LocalMatrix(element[k], vel)]
        IN  \A ni \in Nodes : ~node[ni].boundary =>
                /\ \A nj \in Nodes :
                      K[ni][nj] = IF node[nj].boundary THEN I(0) ELSE SumKe(Kes, ni, nj)
                /\ rhs[ni] = RSub(RNeg(SumSe(ni)), SumKeValue(Kes, ni))

\* an interior node of two elements, with a boundary node of nonzero value
\* beside it and an interior one
C2Witness ==
    /\ pc = "assembled"
    /\ Len(element) = 2
    /\ \E ni \in Nodes :
          /\ ~node[ni].boundary
          /\ \A k \in Elems : \E i \in 1..3 : element[k].node[i] = ni
          /\ Finite(K[ni][ni]) /\ K[ni][ni] # I(0)
          /\ Finite(rhs[ni]) /\ rhs[ni] # I(0)
          /\ \E nj \in Nodes \ {ni} : ~node[nj].boundary /\ K[ni][nj] # I(0)
          /\ \E nj \in Nodes : node[nj].boundary /\ node[nj].value # I(0) /\ Referenced(nj)

\* a mesh with an element and without an element of area 0, in a region of
\* orientation 0, solved without convection: every entry of K is then a
\* number the program computes without rounding
ProperMesh ==
    /\ Len(element) > 0
    /\ \A k \in Elems : element[k].area # I(0)
    /\ \A r \in 1..Len(region) : region[r].orientation = "zero"
    /\ vel = <<0, 0>>

\* the boundary nodes keep the value they had when Mesh.solve was called
C3BoundaryKept ==
    (pc = "assembled" /\ pc' = "idle" /\ ProperMesh) =>
        \A n \in Nodes : node[n].boundary => node'[n].value = node[n].value

\* C3: Mesh.solve never changes the value of a boundary node (stated for
\* the meshes that have an element and none of area 0, with orientation 0
\* and no convection).
C3DirichletFixed == [][C3BoundaryKept]_vars

\* the product of the matrix A and the vector x
MatVec(A, x) == [r \in Nodes |-> RSumTo([c \in Nodes |-> RMul(A[r][c], x[c])], NN)]

C4UniformStep ==
    (/\ pc = "assembled" /\ pc' = "idle"
     /\ ProperMesh
     /\ \A r \in 1..Len(region) : region[r].source = 0) =>
        \A b \in Nodes :
            (node[b].boundary /\ \A n \in Nodes : node[n].boundary => node[n].value = node[b].value) =>
                /\ MatVec(K, [n \in Nodes |-> node[b].value]) = rhs
                /\ \A n \in Nodes : node'[n].value = node[b].value

\* C4: with no source, no convection and one value v on every boundary
\* node, the vector that is v everywhere satisfies the assembled system
\* and Mesh.solve leaves v in every node (stated for the meshes that have
\* an element and none of area 0, with orientation 0).
C4UniformFixedPoint == [][C4UniformStep]_vars

\* C5: the gradient of the nodal field value = x is 1 on every element of
\* nonzero area, in either ordering of its nodes.
C5GradOfX ==
    (/\ out.op = "grad"
     /\ element[1].area # I(0)
     /\ \A n \in Nodes : node[n].value = I(node[n].x)) => out.val = I(1)

MatMul2(A, B) ==
    [r \in 1..2 |-> [c \in 1..2 |-> RAdd(RMul(A[r][1], B[1][c]), RMul(A[r][2], B[2][c]))]]

\* C6: calcTensor returns the matrix product R (v I) R^T.
C6TensorRotated ==
    out.op = "calcTensor" =>
        LET v == MaterialValue(region[1].matName, out.arg)
            R == region[1].T
        IN  out.val = MatMul2(R, MatMul2(<< <<v, I(0)>>, <<I(0), v>> >>, Transpose2(R)))

\* C7: no element of area 0 is ever stored in Mesh.element.
C7NoDegenerateElement == \A k \in Elems : element[k].area # I(0)

C8FailureStep ==
    (pc = "assembled" /\ ProperMesh /\ ~Regular(K)) => (pc' = "failed" /\ node' = node)

\* C8: when the assembled system has no unique solution, Mesh.solve ends in
\* a failure and writes nothing into the nodes (stated for the meshes that
\* have an element and none of area 0, with orientation 0 and no
\* convection).
C8SingularFails == [][C8FailureStep]_vars

Symmetric3(M) == \A i \in 1..3 : \A j \in 1..3 : M[i][j] = M[j][i]

\* C9: on an element of nonzero area in a region of orientation 0 the
\* matrix of calcDiffMat is symmetric; with vx = vy = 0 the matrix of
\* calcConvMat is zero and the local matrix Ke + Ce is symmetric.
C9SymmetricLocal ==
    /\ (out.op = "calcDiffMat" /\ element[1].area # I(0) /\ region[1].orientation = "zero")
            => Symmetric3(out.val)
    /\ (out.op = "calcConvMat" /\ out.arg = <<0, 0>>) => out.val = Zeros3
    /\ (out.op = "localMatrix" /\ out.arg = <<0, 0>> /\ element[1].area # I(0)
            /\ region[1].orientation = "zero") => Symmetric3(out.val)

C9Witness ==
    /\ out.op = "localMatrix"
    /\ out.arg = <<0, 0>>
    /\ element[1].area # I(0)
    /\ region[1].orientation = "zero"
    /\ region[1].matName = "IRON"
    /\ out.val[1][2] # I(0)
    /\ out.val[1][2] # out.val[1][3]

\* the orders in which n elements can be processed
Orders(n) == {p \in [1..n -> 1..n] : \A a \in 1..n : \A b \in 1..n : p[a] = p[b] => a = b}

RECURSIVE AssembleTo(_, _)
AssembleTo(p, n) ==
    IF n = 0 THEN [K |-> ZeroMat, rhs |-> ZeroVec]
    ELSE ElementStep(AssembleTo(p, n - 1), element[p[n]], vel)

C10AnyOrder ==
    pc = "assembled" =>
        \A p \in Orders(Len(element)) : AssembleTo(p, Len(element)) = [K |-> K, rhs |-> rhs]

C10NodesKept == pc = "loop" => node' = node

\* C10: K and rhs are the same for every order of the elements, and the
\* loop over the elements changes no node.
C10OrderIndependent == [](C10AnyOrder) /\ [][C10NodesKept]_vars

\* two different elements that share an interior and a boundary node
C10Witness ==
    /\ pc = "assembled"
    /\ Len(element) = 2
    /\ element[1].node # element[2].node
    /\ region[1].source # 0
    /\ vel # <<0, 0>>
    /\ \E ni \in Nodes : \E nb \in Nodes :
          /\ ~node[ni].boundary /\ node[nb].boundary /\ node[nb].value # I(0)
          /\ \A k \in Elems : \E i \in 1..3 : \E j \in 1..3 :
                element[k].node[i] = ni /\ element[k].node[j] = nb
          /\ Finite(K[ni][ni]) /\ K[ni][ni] # I(0)

====
